---- MODULE Spec2Model ----
(***************************************************************************)
(* Model of the Innovation SSI-2001 device (src/hardware/innovation.cpp):  *)
(* the render scheduler, the output queue, the idle manager and the        *)
(* open/close lifecycle.                                                   *)
(*                                                                         *)
(* Time (PIC_FullIndex, last_render_time) is a double holding milliseconds *)
(* in the source.  Here it is an integer number of time units, with        *)
(* TimeUnitsPerMs units per millisecond, so that frames / frame_rate is    *)
(* exact for the modelled frame rates and duration * frame_rate still has  *)
(* to be rounded.                                                          *)
(***************************************************************************)
EXTENDS Integers, Sequences, FiniteSets, TLC

VARIABLES
    \* ---- members of class Innovation --------------------------------
    is_open,                  \* bool is_open
    is_enabled,               \* bool is_enabled
    service,                  \* unique_ptr<reSIDfp::SID>: NullService or the chip's register state
    channel,                  \* mixer channel handle: NullChannel or [enabled |-> BOOLEAN]
    read_handler,             \* TRUE when the IO read handler is installed
    write_handler,            \* TRUE when the IO write handler is installed
    chip_clock,               \* double chip_clock, in 1/100 Hz
    frame_rate_per_ms,        \* double frame_rate_per_ms
    idle_after_silent_frames, \* int idle_after_silent_frames
    last_render_time,         \* double last_render_time, in time units
    unwritten_for_ms,         \* int unwritten_for_ms
    silent_frames,            \* int silent_frames
    fifo,                     \* std::queue<int16_t> fifo; an entry is the value v with its production
                              \* serial n, the time t it was rendered up to, and cur, TRUE when it
                              \* was rendered since the last Open
    \* ---- environment ----------------------------------------------
    now,                      \* the value PIC_FullIndex() returns, in time units
    aborted,                  \* TRUE once an assert has terminated the process
    \* ---- observation of the last operation -------------------------
    op,                       \* name of the last operation performed
    out,                      \* frames the last operation handed to channel->AddSamples_m16
    requested,                \* requested_frames, when the last operation was a MixerCallBack
    pushed,                   \* number of samples the last operation pushed to fifo
    last_write_time,          \* now of the last register write (NoTime if none since Open)
    next_serial,              \* serial the next RenderOnce will give its sample
    next_delivery,            \* serial of the sample the channel expects next
    order_ok,                 \* FALSE once a frame was delivered out of production order
    pulls_since_write,        \* MixerCallBack calls since the last WriteToPort on this chip
    zero_run,                 \* length of the run of zero samples the chip rendered last
    written,                  \* TRUE when the chip got a register write at or after the last enabling
    effects,                  \* calls the last operation made on the channel, the handlers and the chip
    last_pull_time,           \* now of the last MixerCallBack, or of the Open when none came since
    clock_token,              \* clock_choice, when the last operation was an Open of a model
    lifecycle,                \* outcome of the last Open or Close
    installed,                \* sets of port handlers this instance has installed in the IO system
    \* ---- single calls examined on their own -------------------------
    probe,                    \* one RenderOnce call: the chip's sample, silent_frames, and the result
    loop                      \* one RenderForMs or MixerCallBack call, statement by statement

vars == <<is_open, is_enabled, service, channel, read_handler, write_handler,
          chip_clock, frame_rate_per_ms, idle_after_silent_frames,
          last_render_time, unwritten_for_ms, silent_frames, fifo, now, aborted,
          op, out, requested, pushed,
          last_write_time, next_serial, next_delivery, order_ok,
          pulls_since_write, zero_run, written, effects, last_pull_time,
          clock_token, lifecycle, installed, probe, loop>>

obs == <<op, out, requested, pushed, last_write_time, next_serial, next_delivery, order_ok,
         pulls_since_write, zero_run, written, effects, last_pull_time,
         clock_token, lifecycle, installed>>

bench == <<probe, loop>>

device == <<is_open, is_enabled, service, channel, read_handler, write_handler,
            chip_clock, frame_rate_per_ms, idle_after_silent_frames,
            last_render_time, unwritten_for_ms, silent_frames, fifo, now, aborted>>

\* ------------------------------------------------------------------------
\* Program constants
\* ------------------------------------------------------------------------
idle_after_ms == 200

ClockDefault == 89488625

ClockC64Ntsc == 102272714

ClockC64Pal == 98525000

ClockHardSid == 100000000

Int16Min == -32768

Int16Max == 32767

\* ------------------------------------------------------------------------
\* Bounds of the model
\* ------------------------------------------------------------------------
TimeUnitsPerMs == 2

MaxNow == 4

MaxFrames == 2

MaxBusyPulls == 3

MaxSilent == 4

IdleSlack == 1

IdleRates == {1}

SerialMod == 3

\* calls of clock() that report no sample before one that does
MaxCycles == 2

NoTime == 0 - 1

NullService == 0 - 1

NullChannel == [present |-> FALSE, enabled |-> FALSE]

NoProbe == [sample |-> 0, silent_frames |-> 0, done |-> FALSE, ret |-> 0, after |-> 0]

NoLoop == [pc |-> "none"]

\* values of a uint16_t
UInt16Mod == 65536

\* --n on a uint16_t, with the decrement left out
Decremented16Kept(n) == n

\* --n on a uint16_t
Decremented16(n) == (n - 1) % UInt16Mod

FrameRates == {1, 2}

WriteData == {0, 1}

Models == {"none", "6581", "8580"}

Clocks == {"default", "bogus"}

\* ------------------------------------------------------------------------
\* Helpers
\* ------------------------------------------------------------------------
Min(a, b) == IF a < b THEN a ELSE b

\* iround(x) for x = num / den, den > 0: nearest integer, halves away from zero
IRound(num, den) ==
    IF num >= 0 THEN (2 * num + den) \div (2 * den)
                ELSE 0 - ((2 * (0 - num) + den) \div (2 * den))

\* check_cast<int16_t>(v)
check_cast_int16(v) ==
    IF v > Int16Max THEN Int16Max ELSE IF v < Int16Min THEN Int16Min ELSE v

\* The samples service->clock() can emit for a chip whose registers hold reg:
\* a chip with cleared registers is silent, any other one may emit a zero
\* crossing or a non-zero amplitude.
ChipSamples(reg) == IF reg = 0 THEN {0} ELSE {0, 3 * reg}

\* RenderOnce, returning sample * 2 as it is
RenderOnceUnchecked(sample, sf) ==
    IF sample = 0
        THEN [ret |-> 0, silent_frames |-> sf + 1]
        ELSE [ret |-> sample * 2, silent_frames |-> 0]

\* RenderOnce, without the reset of silent_frames on a non-zero sample
RenderOnceNoReset(sample, sf) ==
    IF sample = 0
        THEN [ret |-> 0, silent_frames |-> sf + 1]
        ELSE [ret |-> check_cast_int16(sample * 2), silent_frames |-> sf]

\* int16_t Innovation::RenderOnce(), for the sample the chip emits
RenderOnce(sample, sf) ==
    IF sample = 0
        THEN [ret |-> 0, silent_frames |-> sf + 1]
        ELSE [ret |-> check_cast_int16(sample * 2), silent_frames |-> 0]

\* count successive RenderOnce calls, the chip emitting samples[1..count]
RECURSIVE RenderLoop(_, _)
RenderLoop(samples, sf) ==
    IF samples = <<>>
        THEN [rets |-> <<>>, silent_frames |-> sf]
        ELSE LET r    == RenderOnce(Head(samples), sf)
                 rest == RenderLoop(Tail(samples), r.silent_frames)
             IN  [rets |-> <<r.ret>> \o rest.rets,
                  silent_frames |-> rest.silent_frames]

\* RenderCount, with the loop running once more than render_count
RenderCountOneMore(duration, rate) ==
    LET render_count == IRound(duration * rate, TimeUnitsPerMs)
    IN  IF render_count >= 0 THEN render_count + 1 ELSE 0

\* render_count of Innovation::RenderForMs(duration_ms)
RenderCount(duration, rate) ==
    LET render_count == IRound(duration * rate, TimeUnitsPerMs)
    IN  IF render_count > 0 THEN render_count ELSE 0

\* WriteRenderCount, with the catch-up render made in either enable state
WriteRenderCountAlways(enabled, duration, rate) == RenderCount(duration, rate)

\* the samples WriteToPort renders: RenderForMs runs only in the else branch
\* of the is_enabled test
WriteRenderCount(enabled, duration, rate) ==
    IF enabled THEN RenderCount(duration, rate) ELSE 0

\* RegistersAtRender, with service->write() made before the catch-up render
RegistersAtRenderAfterWrite(prior, data) == data

\* the chip registers the catch-up render of WriteToPort runs on: prior are the
\* registers before the write, data is the value being written
RegistersAtRender(prior, data) == prior

\* ConvertFramesToMs, with the division by the frame rate left out
ConvertFramesToMsWithoutRate(frames, rate) == frames * TimeUnitsPerMs

\* double Innovation::ConvertFramesToMs(frames), in time units
ConvertFramesToMs(frames, rate) == (frames * TimeUnitsPerMs) \div rate

\* the queue entries for values rets rendered up to time at, numbered from
\* serial on
Tagged(rets, serial, at) ==
    [i \in 1..Len(rets) |->
        [v |-> rets[i], n |-> (serial + i - 1) % SerialMod, t |-> at,
         cur |-> TRUE]]

\* the queue as a completed Open leaves it: the same entries, which now date
\* from before the last Open
Aged(queue) ==
    [i \in 1..Len(queue) |->
        [v |-> queue[i].v, n |-> queue[i].n, t |-> queue[i].t, cur |-> FALSE]]

\* length of the run of zeros that ends rets, continuing run when all are zero
RECURSIVE ZeroRun(_, _)
ZeroRun(rets, run) ==
    IF rets = <<>> THEN run
    ELSE IF Head(rets) = 0 THEN ZeroRun(Tail(rets), run + 1)
    ELSE ZeroRun(Tail(rets), 0)

\* the serials of entries are consecutive, starting at first
RECURSIVE InOrder(_, _)
InOrder(entries, first) ==
    \/ entries = <<>>
    \/ /\ Head(entries).n = first % SerialMod
       /\ InOrder(Tail(entries), first + 1)

\* Delivered, with the frames rendered for the shortfall never handed over
DeliveredWithoutUnderrun(queue, drained, fresh) ==
    [i \in 1..drained |->
        [v |-> queue[i].v, n |-> queue[i].n, cur |-> queue[i].cur, src |-> "fifo"]]

\* the frames one MixerCallBack hands to the channel: the queue's oldest
\* drained entries, then the ones rendered for the shortfall
Delivered(queue, drained, fresh) ==
    [i \in 1..drained |->
        [v |-> queue[i].v, n |-> queue[i].n, cur |-> queue[i].cur, src |-> "fifo"]]
    \o
    [i \in 1..Len(fresh) |->
        [v |-> fresh[i].v, n |-> fresh[i].n, cur |-> fresh[i].cur, src |-> "render"]]

\* Remaining, with fifo.pop() left out of the drain loop
RemainingWithoutPop(queue, drained) == queue

\* the queue after fifo.pop() was called drained times
Remaining(queue, drained) == SubSeq(queue, drained + 1, Len(queue))

\* IdleCondition, with the pull count compared by >= instead of >
IdleConditionAtLimit(unwritten, silent, limit) ==
    unwritten >= idle_after_ms /\ silent > limit

\* IdleCondition, with either test being enough
IdleConditionEither(unwritten, silent, limit) ==
    unwritten > idle_after_ms \/ silent > limit

\* the idle check at the end of MixerCallBack, unwritten being the value of
\* unwritten_for_ms before its increment
IdleCondition(unwritten, silent, limit) ==
    unwritten > idle_after_ms /\ silent > limit

\* UnwrittenAfterPull, with the counter held once it is past idle_after_ms
UnwrittenAfterPullHeld(unwritten) ==
    IF unwritten > idle_after_ms THEN unwritten ELSE unwritten + 1

\* unwritten_for_ms after the unwritten_for_ms++ of the idle check
UnwrittenAfterPull(unwritten) == unwritten + 1

\* the channel MIXER_AddChannel returns
NewChannel == [present |-> TRUE, enabled |-> FALSE]

\* EnabledChannel, with the call to Enable(true) left out
EnabledChannelLeftOff == [present |-> TRUE, enabled |-> FALSE]

\* the channel after channel->Enable(true)
EnabledChannel == [present |-> TRUE, enabled |-> TRUE]

\* the channel after channel->Enable(false)
DisabledChannel == [present |-> TRUE, enabled |-> FALSE]

ChipClockFor(clock_choice, current) ==
    IF clock_choice = "default" THEN ClockDefault
    ELSE IF clock_choice = "c64ntsc" THEN ClockC64Ntsc
    ELSE IF clock_choice = "c64pal" THEN ClockC64Pal
    ELSE IF clock_choice = "hardsid" THEN ClockHardSid
    ELSE current

\* ------------------------------------------------------------------------
\* Initial state: the global instance as constructed
\* ------------------------------------------------------------------------
InitInstance ==
    /\ is_open = FALSE
    /\ is_enabled = FALSE
    /\ service = NullService
    /\ channel = NullChannel
    /\ read_handler = FALSE
    /\ write_handler = FALSE
    /\ chip_clock = 0
    /\ frame_rate_per_ms = 0
    /\ idle_after_silent_frames = 0
    /\ last_render_time = 0
    /\ unwritten_for_ms = 0
    /\ silent_frames = 0
    /\ fifo = <<>>
    /\ now = 0
    /\ aborted = FALSE
    /\ op = "init"
    /\ out = <<>>
    /\ requested = 0
    /\ pushed = 0
    /\ last_write_time = NoTime
    /\ next_serial = 0
    /\ next_delivery = 0
    /\ order_ok = TRUE
    /\ pulls_since_write = 0
    /\ zero_run = 0
    /\ written = FALSE
    /\ effects = {}
    /\ last_pull_time = 0
    /\ clock_token = ""
    /\ lifecycle = "init"
    /\ installed = 0

Init ==
    /\ InitInstance
    /\ probe = NoProbe
    /\ loop = NoLoop

\* ------------------------------------------------------------------------
\* Operations
\* ------------------------------------------------------------------------
\* CloseEffects, without the early return of a closed instance
CloseEffectsWithoutGuard ==
    (IF channel.present THEN {"channel.Enable(false)"} ELSE {})
    \cup {"read_handler.Uninstall", "write_handler.Uninstall",
          "channel.reset", "service.reset"}

\* the teardown calls Innovation::Close() makes in the current state
CloseEffects ==
    IF ~is_open THEN {}
    ELSE (IF channel.present THEN {"channel.Enable(false)"} ELSE {})
         \cup {"read_handler.Uninstall", "write_handler.Uninstall",
               "channel.reset", "service.reset"}

\* InstalledAfterClose, with the handlers left installed
InstalledAfterCloseKept == installed

\* the handler sets installed once Innovation::Close() has run
InstalledAfterClose == IF is_open THEN installed - 1 ELSE installed

\* the members Innovation::Close() assigns
CloseMembers ==
    IF ~is_open
       THEN UNCHANGED <<is_open, channel, read_handler, write_handler, service>>
       ELSE /\ channel' = NullChannel
            /\ read_handler' = FALSE
            /\ write_handler' = FALSE
            /\ service' = NullService
            /\ is_open' = FALSE

\* void Innovation::Close()
Close ==
    /\ ~aborted
    /\ CloseMembers
    /\ effects' = CloseEffects
    /\ op' = "Close"
    /\ out' = <<>>
    /\ requested' = 0
    /\ pushed' = 0
    /\ clock_token' = ""
    /\ lifecycle' = "Close"
    /\ installed' = InstalledAfterClose
    /\ UNCHANGED <<last_pull_time, bench>>
    /\ UNCHANGED <<is_enabled, chip_clock, frame_rate_per_ms,
                   idle_after_silent_frames, last_render_time,
                   unwritten_for_ms, silent_frames, fifo, now, aborted,
                   last_write_time, next_serial, next_delivery, order_ok,
                   pulls_since_write, zero_run, written>>

\* void Innovation::Open(model_choice, clock_choice, ...), the mixer channel
\* running at rate frames per millisecond
Open(model_choice, clock_choice, rate) ==
    /\ ~aborted
    /\ effects' = CloseEffects
    /\ op' = "Open"
    /\ out' = <<>>
    /\ requested' = 0
    /\ pushed' = 0
    /\ clock_token' = IF model_choice = "none" THEN "" ELSE clock_choice
    /\ UNCHANGED <<now, next_serial, next_delivery, order_ok, bench>>
    /\ IF model_choice = "none"
          THEN \* Close(), then the sentinel returns
               /\ CloseMembers
               /\ lifecycle' = "OpenNone"
               /\ installed' = InstalledAfterClose
               /\ UNCHANGED <<fifo, is_enabled, last_pull_time, chip_clock, frame_rate_per_ms,
                              idle_after_silent_frames, last_render_time,
                              unwritten_for_ms, silent_frames, aborted,
                              last_write_time, pulls_since_write, zero_run,
                              written>>
          ELSE LET clock == ChipClockFor(clock_choice, chip_clock)
               IN  /\ chip_clock' = clock
                   /\ IF clock = 0
                         THEN \* Close(), then assert(chip_clock) fails
                              /\ CloseMembers
                              /\ aborted' = TRUE
                              /\ lifecycle' = "OpenFailed"
                              /\ installed' = InstalledAfterClose
                              /\ UNCHANGED <<fifo, is_enabled, last_pull_time, frame_rate_per_ms,
                                             idle_after_silent_frames,
                                             last_render_time, unwritten_for_ms,
                                             silent_frames, last_write_time,
                                             pulls_since_write, zero_run,
                                             written>>
                         ELSE /\ aborted' = FALSE
                              /\ channel' = NewChannel
                              /\ frame_rate_per_ms' = rate
                              /\ idle_after_silent_frames' = IRound(rate * idle_after_ms, 1)
                              /\ read_handler' = TRUE
                              /\ write_handler' = TRUE
                              /\ service' = 0
                              /\ last_render_time' = 0
                              /\ unwritten_for_ms' = 0
                              /\ silent_frames' = 0
                              /\ is_enabled' = FALSE
                              /\ is_open' = TRUE
                              /\ last_write_time' = NoTime
                              /\ pulls_since_write' = 0
                              /\ zero_run' = 0
                              /\ written' = FALSE
                              /\ fifo' = Aged(fifo)
                              /\ last_pull_time' = now
                              /\ lifecycle' = "Open"
                              /\ installed' = InstalledAfterClose + 1

\* void Innovation::WriteToPort(port, value, width), value being data and the
\* chip emitting samples[1..render_count] during the catch-up render
WriteToPort(data, samples) ==
    /\ ~aborted
    /\ is_open /\ write_handler
    /\ LET duration == now - last_render_time
           count    == WriteRenderCount(is_enabled, duration, frame_rate_per_ms)
           r        == RenderLoop(samples, silent_frames)
       IN  /\ Len(samples) = count
           /\ fifo' = fifo \o Tagged(r.rets, next_serial, now)
           /\ silent_frames' = r.silent_frames
           /\ zero_run' = ZeroRun(r.rets, zero_run)
           /\ next_serial' = (next_serial + count) % SerialMod
           /\ pushed' = count
    /\ channel' = IF is_enabled THEN channel ELSE EnabledChannel
    /\ is_enabled' = TRUE
    /\ last_render_time' = now
    /\ service' = data
    /\ unwritten_for_ms' = 0
    /\ op' = "Write"
    /\ out' = <<>>
    /\ requested' = 0
    /\ effects' = (IF is_enabled THEN {} ELSE {"channel.Enable(true)"})
                   \cup {"service.write"}
    /\ clock_token' = ""
    /\ UNCHANGED <<last_pull_time, lifecycle, installed, bench>>
    /\ last_write_time' = now
    /\ pulls_since_write' = 0
    /\ written' = TRUE
    /\ UNCHANGED <<is_open, read_handler, write_handler, chip_clock,
                   frame_rate_per_ms, idle_after_silent_frames, now, aborted,
                   next_delivery, order_ok>>

\* void Innovation::MixerCallBack(requested_frames), the chip emitting
\* samples[1..shortfall] during the underrun render
MixerCallBack(requested_frames, samples) ==
    /\ ~aborted
    /\ is_open /\ channel.present
    /\ LET drained   == Min(requested_frames, Len(fifo))
           shortfall == requested_frames - drained
           r         == RenderLoop(samples, silent_frames)
           advanced  == IF shortfall > 0
                           THEN last_render_time
                                + ConvertFramesToMs(shortfall, frame_rate_per_ms)
                           ELSE last_render_time
           fresh     == Tagged(r.rets, next_serial, advanced)
           delivered == Delivered(fifo, drained, fresh)
           rest      == Remaining(fifo, drained)
           idle      == IdleCondition(unwritten_for_ms, r.silent_frames,
                                      idle_after_silent_frames)
       IN  /\ Len(samples) = shortfall
           /\ fifo' = rest
           /\ last_render_time' = advanced
           /\ silent_frames' = r.silent_frames
           /\ zero_run' = ZeroRun(r.rets, zero_run)
           /\ out' = delivered
           /\ order_ok' = (order_ok /\ InOrder(delivered, next_delivery))
           \* serials restart once everything rendered has been delivered
           /\ next_serial' = IF rest = <<>> THEN 0
                             ELSE (next_serial + shortfall) % SerialMod
           /\ next_delivery' = IF rest = <<>> THEN 0
                               ELSE (next_delivery + requested_frames) % SerialMod
           /\ channel' = IF idle THEN DisabledChannel ELSE channel
           /\ is_enabled' = IF idle THEN FALSE ELSE is_enabled
           /\ written' = IF idle THEN FALSE ELSE written
    /\ unwritten_for_ms' = UnwrittenAfterPull(unwritten_for_ms)
    /\ pulls_since_write' = pulls_since_write + 1
    /\ requested' = requested_frames
    /\ op' = "Pull"
    /\ pushed' = 0
    /\ effects' = {}
    /\ last_pull_time' = now
    /\ clock_token' = ""
    /\ UNCHANGED <<lifecycle, installed, bench>>
    /\ UNCHANGED <<is_open, service, read_handler, write_handler, chip_clock,
                   frame_rate_per_ms, idle_after_silent_frames, now, aborted,
                   last_write_time>>

\* emulated time passes: PIC_FullIndex() grows by d time units
AdvanceTime(d) ==
    /\ ~aborted
    /\ now + d <= MaxNow
    /\ now' = now + d
    /\ UNCHANGED <<is_open, is_enabled, service, channel, read_handler,
                   write_handler, chip_clock, frame_rate_per_ms,
                   idle_after_silent_frames, last_render_time,
                   unwritten_for_ms, silent_frames, fifo, aborted>>
    /\ UNCHANGED <<obs, bench>>

\* sequences of n samples the chip can emit with its registers holding reg
SampleSeqs(n, reg) == [1..n -> ChipSamples(reg)]

\* the number of samples the catch-up render of a write would take now
CatchUp ==
    IF is_open
       THEN WriteRenderCount(is_enabled, now - last_render_time,
                             frame_rate_per_ms)
       ELSE 0

\* the number of samples a pull of requested_frames would have to synthesize
Shortfall(requested_frames) ==
    IF is_open THEN requested_frames - Min(requested_frames, Len(fifo)) ELSE 0

DoOpen == \E m \in Models, c \in Clocks, rate \in FrameRates : Open(m, c, rate)

DoWrite ==
    \E data \in WriteData :
        \E samples \in SampleSeqs(CatchUp, RegistersAtRender(service, data)) :
            WriteToPort(data, samples)

DoPull ==
    /\ unwritten_for_ms < MaxBusyPulls
    /\ silent_frames < MaxSilent
    /\ \E requested_frames \in 0..MaxFrames :
        \E samples \in SampleSeqs(Shortfall(requested_frames), service) :
            MixerCallBack(requested_frames, samples)

DoAdvance == AdvanceTime(1)

Next == DoOpen \/ Close \/ DoWrite \/ DoPull \/ DoAdvance

Spec == Init /\ [][Next]_vars

\* ------------------------------------------------------------------------
\* The long quiet run: the guest programs the chip now and then while the
\* mixer pulls one millisecond of frames at a time, long enough for the idle
\* manager to act.
\* ------------------------------------------------------------------------
DoOpenIdle == \E rate \in IdleRates : Open("6581", "default", rate)

DoPullIdle ==
    /\ unwritten_for_ms <= idle_after_ms + IdleSlack
    /\ silent_frames <= idle_after_silent_frames + IdleSlack
    /\ \E samples \in SampleSeqs(Shortfall(frame_rate_per_ms), service) :
            MixerCallBack(frame_rate_per_ms, samples)

NextIdle == DoOpenIdle \/ Close \/ DoWrite \/ DoPullIdle

SpecIdle == Init /\ [][NextIdle]_vars

\* ------------------------------------------------------------------------
\* The steady cadence: one session in which every pull asks for the frames
\* of the time that passed since the pull before it (since the Open, for
\* the first one), with register writes at any time in between.
\* ------------------------------------------------------------------------
\* the frames the mixer asks for after the time since the last pull
CadenceFrames == ((now - last_pull_time) * frame_rate_per_ms) \div TimeUnitsPerMs

DoOpenCadence ==
    /\ lifecycle = "init"
    /\ \E rate \in FrameRates : Open("6581", "default", rate)

DoPullCadence ==
    /\ is_open
    /\ now > last_pull_time
    /\ ((now - last_pull_time) * frame_rate_per_ms) % TimeUnitsPerMs = 0
    /\ \E samples \in SampleSeqs(Shortfall(CadenceFrames), service) :
            MixerCallBack(CadenceFrames, samples)

NextCadence == DoOpenCadence \/ DoWrite \/ DoPullCadence \/ DoAdvance

SpecCadence == Init /\ [][NextCadence]_vars

\* ------------------------------------------------------------------------
\* One RenderOnce call on its own: the chip emits any signed 16-bit sample,
\* silent_frames holding nothing or a run of zeroes.

ProbeInputs ==
    [sample : Int16Min..Int16Max, silent_frames : {0, MaxSilent},
     done : {FALSE}, ret : {0}, after : {0}]

InitRender ==
    /\ InitInstance
    /\ probe \in ProbeInputs
    /\ loop = NoLoop

\* the call of RenderOnce() at lines 195 and 215
CallRenderOnce ==
    /\ ~probe.done
    /\ LET r == RenderOnce(probe.sample, probe.silent_frames)
       IN  probe' = [probe EXCEPT !.done = TRUE, !.ret = r.ret,
                                  !.after = r.silent_frames]
    /\ UNCHANGED <<device, obs, loop>>

NextRender == CallRenderOnce

SpecRender == InitRender /\ [][NextRender]_vars

\* ------------------------------------------------------------------------
\* One RenderForMs or MixerCallBack call, statement by statement.  The chip
\* reports a sample after at most MaxCycles calls of clock() that report none.

LoopInputs ==
    {[pc |-> "RenderForMs", duration |-> d, rate |-> r, render_count |-> 0,
      requested_frames |-> 0, size |-> 0, cycles |-> 0, back |-> "none",
      spun |-> FALSE, rendered |-> FALSE] :
        d \in (0 - MaxNow)..MaxNow, r \in FrameRates}
    \cup
    {[pc |-> "MixerCallBack", duration |-> 0, rate |-> r, render_count |-> 0,
      requested_frames |-> q, size |-> n, cycles |-> 0, back |-> "none",
      spun |-> FALSE, rendered |-> FALSE] :
        q \in 0..MaxFrames, n \in 0..MaxFrames, r \in FrameRates}

InitLoop ==
    /\ InitInstance
    /\ probe = NoProbe
    /\ loop \in LoopInputs

\* auto render_count = iround(duration_ms * frame_rate_per_ms)
EnterRenderForMs ==
    /\ loop.pc = "RenderForMs"
    /\ loop' = [loop EXCEPT
                  !.render_count = IRound(loop.duration * loop.rate, TimeUnitsPerMs),
                  !.pc = "render_count--"]

\* while (render_count-- > 0)
TestRenderCount ==
    /\ loop.pc = "render_count--"
    /\ loop' = [loop EXCEPT
                  !.render_count = loop.render_count - 1,
                  !.pc = IF loop.render_count > 0 THEN "clock" ELSE "return",
                  !.back = "push"]

\* while (!service->clock(1, &sample)) ;
ClockChip ==
    /\ loop.pc = "clock"
    /\ \E produced \in BOOLEAN :
          /\ loop.cycles < MaxCycles \/ produced
          /\ loop' = IF produced
                        THEN [loop EXCEPT !.cycles = 0, !.rendered = TRUE,
                                          !.pc = loop.back]
                        ELSE [loop EXCEPT !.cycles = loop.cycles + 1,
                                          !.spun = TRUE]

\* fifo.push(RenderOnce())
PushFrame ==
    /\ loop.pc = "push"
    /\ loop' = [loop EXCEPT !.size = loop.size + 1, !.pc = "render_count--"]

\* while (requested_frames && fifo.size()) { ...; fifo.pop(); --requested_frames; }
DrainFrame ==
    /\ loop.pc = "MixerCallBack"
    /\ loop' = IF loop.requested_frames # 0 /\ loop.size # 0
                  THEN [loop EXCEPT
                          !.size = loop.size - 1,
                          !.requested_frames = Decremented16(loop.requested_frames)]
                  ELSE [loop EXCEPT !.pc = "underrun"]

\* if (requested_frames) { last_render_time += ...;
TestUnderrun ==
    /\ loop.pc = "underrun"
    /\ loop' = [loop EXCEPT
                  !.pc = IF loop.requested_frames # 0 THEN "requested_frames--"
                                                      ELSE "idle"]

\* while (requested_frames--)
TestRequested ==
    /\ loop.pc = "requested_frames--"
    /\ loop' = [loop EXCEPT
                  !.requested_frames = Decremented16(loop.requested_frames),
                  !.pc = IF loop.requested_frames # 0 THEN "clock" ELSE "idle",
                  !.back = "AddSamples"]

\* channel->AddSamples_m16(1, &frame)
AddFrame ==
    /\ loop.pc = "AddSamples"
    /\ loop' = [loop EXCEPT !.pc = "requested_frames--"]

\* the idle check, then the return
IdleCheck ==
    /\ loop.pc = "idle"
    /\ loop' = [loop EXCEPT !.pc = "return"]

LoopStep ==
    \/ EnterRenderForMs
    \/ TestRenderCount
    \/ ClockChip
    \/ PushFrame
    \/ DrainFrame
    \/ TestUnderrun
    \/ TestRequested
    \/ AddFrame
    \/ IdleCheck

NextLoop == LoopStep /\ UNCHANGED <<device, obs, probe>>

\* the call runs on: nothing in it suspends or awaits
SpecLoop == InitLoop /\ [][NextLoop]_vars /\ WF_vars(NextLoop)

\* ------------------------------------------------------------------------
\* Properties
\* ------------------------------------------------------------------------
\* the step is operation o (emulated time passing is not an operation)
StepIs(o) == op' = o /\ now' = now

\* the number of frames in frames that came from src
CountFrom(frames, src) == Len(SelectSeq(frames, LAMBDA f : f.src = src))

\* C1: every MixerCallBack(requested_frames) on an open instance hands
\* exactly requested_frames frames to the channel, whatever the queue length
\* and the enable state, and does not fail.
C1_ExactFrames ==
    op = "Pull" => (Len(out) = requested /\ is_open /\ ~aborted)

\* a pull that took one frame from the queue and rendered the other
C1_Witness ==
    /\ op = "Pull"
    /\ requested = 2
    /\ Len(out) = 2
    /\ out[1].src = "fifo"
    /\ out[2].src = "render"

\* C2: frames reach the mixer in the order RenderOnce produced them: the
\* serials delivered so far are consecutive, the queue holds exactly the
\* serials rendered and not yet delivered, in order, and a frame rendered
\* during a pull is delivered only after the queue has been emptied.
C2_ProductionOrder ==
    /\ order_ok
    /\ InOrder(fifo, next_delivery)
    /\ (next_delivery + Len(fifo)) % SerialMod = next_serial
    /\ op = "Pull" =>
          /\ \A i, j \in 1..Len(out) :
                (i < j /\ out[i].src = "render") => out[j].src = "render"
          /\ (\E i \in 1..Len(out) : out[i].src = "render") => fifo = <<>>

\* a pull that drained part of the queue and left the rest waiting
C2_Witness ==
    /\ op = "Pull"
    /\ out # <<>>
    /\ fifo # <<>>
    /\ out[Len(out)].n # fifo[1].n

\* C3: a pull of q + k frames (k > 0) from a queue of q takes q frames from
\* the queue, which it empties, renders k and advances last_render_time by
\* k / frame_rate_per_ms; a pull of at most q frames renders nothing and
\* leaves last_render_time alone.
C3_Underrun ==
    [][StepIs("Pull") =>
        LET q     == Len(fifo)
            r     == requested'
            o     == out'
            fromq == CountFrom(o, "fifo")
            synth == CountFrom(o, "render")
        IN  IF r > q
               THEN /\ fromq = q
                    /\ fifo' = <<>>
                    /\ synth = r - q
                    /\ (last_render_time' - last_render_time) * frame_rate_per_ms
                          = (r - q) * TimeUnitsPerMs
               ELSE /\ fromq = r
                    /\ synth = 0
                    /\ Len(fifo') = q - r
                    /\ last_render_time' = last_render_time]_vars

\* an underrun pull at two frames per millisecond: one frame queued, one rendered
C3_Witness ==
    /\ op = "Pull"
    /\ frame_rate_per_ms = 2
    /\ Len(out) = 2
    /\ out[1].src = "fifo"
    /\ out[2].src = "render"
    /\ last_render_time > now

\* the number of samples the step pushed to the queue
Pushed == Len(fifo') - Len(fifo)

\* n is x / den rounded to the nearest integer, halves upwards (x >= 0)
IsRounded(n, x, den) == 2 * n * den <= 2 * x + den /\ 2 * x + den < 2 * (n + 1) * den

\* C4 (as stated): every register write renders round(delta *
\* frame_rate_per_ms) samples into the queue, within 1, delta being the time
\* since the previous register write.
C4_RenderedSinceLastWrite ==
    [][(StepIs("Write") /\ last_write_time # NoTime) =>
        LET expected == IRound((now - last_write_time) * frame_rate_per_ms,
                               TimeUnitsPerMs)
        IN  /\ Pushed - expected <= 1
            /\ expected - Pushed <= 1]_vars

\* C4 (amended): a register write that finds the channel Enabled renders
\* round((now - last_render_time) * frame_rate_per_ms) samples into the queue
\* (none when that is not positive), last_render_time being the time of the
\* previous write advanced by the underrun pulls since; a write that finds the
\* channel Disabled renders none.
C4_RenderedSinceLastRender ==
    [][StepIs("Write") =>
        LET d == now - last_render_time
        IN  IF is_enabled /\ d > 0
               THEN IsRounded(Pushed, d * frame_rate_per_ms, TimeUnitsPerMs)
               ELSE Pushed = 0]_vars

\* a write that rendered 1.5 ms, rounded up to two samples, at one frame per ms
C4_Witness ==
    /\ op = "Write"
    /\ frame_rate_per_ms = 1
    /\ pushed = 2
    /\ now = 3

\* C5: a pull takes the channel from Enabled to Disabled exactly when, at the
\* check after its frames are delivered, unwritten_for_ms > 200 and
\* silent_frames > idle_after_silent_frames = round(200 * frame_rate_per_ms),
\* which is 9600 at 48 frames per millisecond.
C5_IdleTransition ==
    [][StepIs("Pull") =>
        /\ (channel.enabled /\ ~channel'.enabled)
             <=> /\ channel.enabled
                 /\ unwritten_for_ms > 200
                 /\ silent_frames' > idle_after_silent_frames
        /\ (is_enabled /\ ~is_enabled') <=> (channel.enabled /\ ~channel'.enabled)
        /\ idle_after_silent_frames = 200 * frame_rate_per_ms
        /\ IRound(48 * idle_after_ms, 1) = 9600]_vars

\* the channel, enabled by a write, has just been disabled by a pull
C5_Witness ==
    /\ op = "Pull"
    /\ is_open
    /\ last_write_time # NoTime
    /\ ~channel.enabled
    /\ ~is_enabled
    /\ silent_frames > idle_after_silent_frames

\* C6 (as stated): a register write leaves the channel Enabled and both idle
\* counters at zero.
C6_WriteResetsBoth ==
    [][StepIs("Write") =>
        /\ is_enabled' /\ channel'.enabled
        /\ unwritten_for_ms' = 0
        /\ silent_frames' = 0]_vars

\* C6 (amended): a register write leaves the channel Enabled and
\* unwritten_for_ms at zero; silent_frames is left as it was when the write
\* renders nothing (always so when the channel was Disabled) and otherwise
\* is zero exactly when the last sample rendered is not zero.
C6_WriteEnables ==
    [][StepIs("Write") =>
        /\ is_enabled' /\ channel'.enabled
        /\ unwritten_for_ms' = 0
        /\ ~is_enabled => Pushed = 0
        /\ Pushed = 0 => silent_frames' = silent_frames
        /\ Pushed > 0 => LET q == fifo'
                         IN  (silent_frames' = 0) <=> (q[Len(q)].v # 0)]_vars

\* a write has returned with the channel enabled and silent_frames not zero
C6_Witness ==
    /\ op = "Write"
    /\ is_enabled
    /\ channel.enabled
    /\ unwritten_for_ms = 0
    /\ silent_frames > 0

\* C7: the channel is Enabled only if the chip got a register write at or
\* after the last enabling, and a pull disables the channel only after more
\* than 200 pulls in a row without a write and more than
\* idle_after_silent_frames zero samples in a row.
C7_EnableDiscipline ==
    /\ [](channel.enabled => (is_open /\ written /\ last_write_time # NoTime))
    /\ [][(StepIs("Pull") /\ channel.enabled /\ ~channel'.enabled) =>
            /\ pulls_since_write > 200
            /\ zero_run' > 200 * frame_rate_per_ms]_vars

\* a pull has disabled a channel that a write had enabled
C7_Witness ==
    /\ op = "Pull"
    /\ last_write_time # NoTime
    /\ ~channel.enabled
    /\ ~written
    /\ pulls_since_write > 200
    /\ zero_run > 200 * frame_rate_per_ms

\* C8 (as stated): every Open with a model other than none leaves the queue
\* empty and the timing state at zero, and no sample rendered before an Open
\* is delivered after it.
C8_OpenResets ==
    /\ (op = "Open" /\ is_open) =>
          /\ fifo = <<>>
          /\ last_render_time = 0
          /\ unwritten_for_ms = 0
          /\ silent_frames = 0
          /\ ~is_enabled
          /\ ~channel.enabled
    /\ \A i \in 1..Len(out) : out[i].cur

members == <<is_open, is_enabled, service, channel, read_handler, write_handler,
             chip_clock, frame_rate_per_ms, idle_after_silent_frames,
             last_render_time, unwritten_for_ms, silent_frames, fifo>>

\* C9: Close leaves the channel disabled and released, the port handlers
\* uninstalled, the chip engine released and is_open false; a Close of a
\* closed instance changes no member and makes no teardown call.
C9_CloseIdempotent ==
    [][StepIs("Close") =>
        /\ ~is_open'
        /\ ~channel'.present /\ ~channel'.enabled
        /\ ~read_handler' /\ ~write_handler'
        /\ service' = NullService
        /\ ~is_open => (members' = members /\ effects' = {})]_vars

\* a Close of an instance that had been opened and closed before did nothing
C9_Witness ==
    /\ op = "Close"
    /\ effects = {}
    /\ ~is_open
    /\ chip_clock # 0

\* C10 (as stated): while the instance is open, no write and no pull
\* decreases last_render_time.
C10_Monotonic ==
    [][(is_open /\ is_open' /\ (StepIs("Write") \/ StepIs("Pull"))) =>
        last_render_time' >= last_render_time]_vars

\* C11 (as stated): while the instance is open, every sample in the queue
\* was rendered for a time not later than last_render_time.
C11_NoFutureSamples ==
    is_open => \A i \in 1..Len(fifo) : fifo[i].t <= last_render_time

\* C12 (as stated): when every pull asks for the frames of the time elapsed
\* since the previous pull, the queue left by a pull stays within the rounding
\* tolerance of one sample, whatever the number and spacing of the register
\* writes in between.
C12_SelfLimiting ==
    op = "Pull" => Len(fifo) <= 1

\* the clock-source tokens Innovation::Open recognizes
RecognizedClocks == {"default", "c64ntsc", "c64pal", "hardsid"}

\* C13 (as stated): every Open of a model with a clock-source token that is
\* not recognized fails on assert(chip_clock): the instance is left not open
\* and no port handler is installed.
C13_UnknownClockFails ==
    (op = "Open" /\ clock_token # "" /\ clock_token \notin RecognizedClocks) =>
        /\ aborted
        /\ ~is_open
        /\ ~read_handler /\ ~write_handler
        /\ service = NullService

\* the values RenderOnce can return on a chip whose registers hold reg
RenderedValues(reg) == {2 * x : x \in ChipSamples(reg)}

\* C14: a register write takes the time once, pushes the catch-up render made
\* on the chip's registers as they were before the write, sets
\* last_render_time to that time, and only then writes the new value to the
\* chip.
C14_WriteOrder ==
    [][StepIs("Write") =>
        LET q == fifo'
        IN  /\ SubSeq(q, 1, Len(fifo)) = fifo
            /\ \A i \in (Len(fifo) + 1)..Len(q) :
                  /\ q[i].v \in RenderedValues(service)
                  /\ q[i].t = now
            /\ last_render_time' = now
            /\ last_write_time' = now
            /\ service' \in WriteData
            /\ "service.write" \in effects']_vars

\* a write of 0 has pushed a non-zero sample, rendered on the registers it replaced
C14_Witness ==
    /\ op = "Write"
    /\ service = 0
    /\ pushed > 0
    /\ fifo # <<>>
    /\ fifo[Len(fifo)].v # 0
    /\ fifo[Len(fifo)].t = now
    /\ last_render_time = now

\* C15: every pull adds exactly one to unwritten_for_ms, in either enable
\* state and whether or not the idle condition holds, and every register write
\* sets it to 0; the one idle check of a pull is made on the counters as they
\* are after the pull's frames are delivered and before the increment.
C15_UnwrittenCounter ==
    [][/\ StepIs("Pull") =>
            /\ unwritten_for_ms' = unwritten_for_ms + 1
            /\ is_enabled' <=>
                  /\ is_enabled
                  /\ ~(/\ unwritten_for_ms > idle_after_ms
                       /\ silent_frames' > idle_after_silent_frames)
       /\ StepIs("Write") => unwritten_for_ms' = 0]_vars

\* a pull on a channel that was never enabled, with the idle condition met,
\* has still counted
C15_Witness ==
    /\ op = "Pull"
    /\ last_write_time = NoTime
    /\ ~is_enabled
    /\ unwritten_for_ms = idle_after_ms + 2
    /\ silent_frames > idle_after_silent_frames

\* C16: while the device is open, silent_frames is the length of the run of
\* zero samples that ends the samples rendered since the Open, those pushed to
\* the queue and those rendered directly into an underrun alike; an operation
\* that renders nothing (a Close, a write that pushes nothing, a pull the queue
\* covers, the passing of time) leaves silent_frames as it was.
C16_SilentFrames ==
    [][/\ is_open' => silent_frames' = zero_run'
       /\ (StepIs("Close") \/ now' # now) => silent_frames' = silent_frames
       /\ (StepIs("Write") /\ pushed' = 0) => silent_frames' = silent_frames
       /\ (StepIs("Pull") /\ requested' <= Len(fifo)) =>
              silent_frames' = silent_frames]_vars

\* an underrun rendered a non-zero sample and then a zero one
C16_Witness ==
    /\ op = "Pull"
    /\ is_open
    /\ Len(out) >= 2
    /\ out[Len(out) - 1].src = "render"
    /\ out[Len(out) - 1].v # 0
    /\ out[Len(out)].v = 0
    /\ silent_frames = 1

C18_Terminates == <>(loop.pc = "return")

\* a pull that underran has returned, the chip having cycled without a sample
\* on the way and requested_frames having wrapped on leaving the loop
C18_Witness ==
    /\ loop.pc = "return"
    /\ loop.back = "AddSamples"
    /\ loop.spun
    /\ loop.rendered
    /\ loop.requested_frames = UInt16Mod - 1

\* C19: a register write that finds the channel disabled renders nothing: the
\* queue and silent_frames stay as they were, however long the channel was
\* disabled; the write enables the channel, sets last_render_time to now, hands
\* the value to the chip and zeroes unwritten_for_ms, and changes nothing else.
C19_WriteWhileDisabled ==
    [][(StepIs("Write") /\ ~is_enabled) =>
          /\ fifo' = fifo
          /\ silent_frames' = silent_frames
          /\ is_enabled' /\ channel'.enabled
          /\ "channel.Enable(true)" \in effects'
          /\ last_render_time' = now
          /\ "service.write" \in effects' /\ service' \in WriteData
          /\ unwritten_for_ms' = 0
          /\ UNCHANGED <<is_open, read_handler, write_handler, chip_clock,
                         frame_rate_per_ms, idle_after_silent_frames>>]_vars

\* a write enabled the channel a millisecond or more after the Open, nothing
\* having rendered in between
C19_Witness ==
    /\ op = "Write"
    /\ "channel.Enable(true)" \in effects
    /\ last_pull_time = 0
    /\ now >= TimeUnitsPerMs
    /\ last_render_time = now
    /\ fifo = <<>>
    /\ silent_frames = 0

\* C20: after any sequence of Open and Close calls the instance holds a chip,
\* a mixer channel and installed port handlers exactly when is_open is set,
\* and holds none of them otherwise; is_open is set exactly when the last of
\* those calls was an Open of a model other than none that ran to its end; an
\* Open of an open device makes the teardown calls of Close first, so that no
\* more than one set of handlers is installed at any time.
C20_Lifecycle ==
    /\ [](/\ is_open <=> lifecycle = "Open"
          /\ IF is_open
                THEN /\ service # NullService /\ channel.present
                     /\ read_handler /\ write_handler
                     /\ installed = 1
                ELSE /\ service = NullService /\ ~channel.present
                     /\ ~read_handler /\ ~write_handler
                     /\ installed = 0)
    /\ [][(StepIs("Open") /\ is_open) =>
             {"read_handler.Uninstall", "write_handler.Uninstall",
              "channel.reset", "service.reset"} \subseteq effects']_vars

\* an open device was opened again
C20_Witness ==
    /\ op = "Open"
    /\ is_open
    /\ "read_handler.Uninstall" \in effects
    /\ "service.reset" \in effects
    /\ installed = 1

====
